---- MODULE Spec2Model ----
(***************************************************************************)
(* State-machine model of the ink! contract `Voting` (src/lib.rs).         *)
(*                                                                         *)
(* The storage struct has three fields: `runners` (a Vec of AccountId),    *)
(* `votes` (Mapping AccountId -> u32) and `already_voted` (Mapping         *)
(* AccountId -> bool).  The three messages `vote`, `get_votes` and         *)
(* `get_current_winner` are modelled as the Rust methods they are: one     *)
(* atomic action per call, with the storage the method leaves behind and   *)
(* the value it returns.                                                   *)
(*                                                                         *)
(* An Option is a sequence of length 0 (None) or 1 (Some(x)); a Mapping is *)
(* a function whose DOMAIN is the set of keys that have been inserted.     *)
(***************************************************************************)
EXTENDS Integers, Sequences, FiniteSets, TLC

\* Number of distinct AccountId values (callers and addresses share the type).
NumAccounts == 4

\* The counter's maximum value: u32::MAX, scaled down so that a count can reach it.
U32_MAX == 2

Accounts == 1..NumAccounts

VARIABLES
    runners,        \* Voting.runners: Vec<AccountId>
    votes,          \* Voting.votes: Mapping<AccountId, u32>
    already_voted,  \* Voting.already_voted: Mapping<AccountId, bool>
    call,           \* the last message called: its name, and the caller, argument and
                    \* return value it has
    okCount,        \* history: per caller, how many vote calls returned Ok
    overflowCount,  \* history: per caller, how many vote calls returned Err(VoteOverflow)
    ballot,         \* SpecOrder: the vote calls to make, one per caller (caller -> address)
    pending         \* SpecOrder: the callers whose call of the ballot is still to be made

storage == <<runners, votes, already_voted>>
order == <<ballot, pending>>
vars == <<runners, votes, already_voted, call, okCount, overflowCount, ballot, pending>>

-----------------------------------------------------------------------------
\* Option<T>
None == <<>>
Some(x) == <<x>>

unwrap_or(opt, default) == IF opt = None THEN default ELSE opt[1]

\* u32::default()
u32_default == 0

unwrap_or_default(opt) == unwrap_or(opt, u32_default)

\* Mapping::default(): no key is stored.
Mapping_default == <<>>

\* Mapping::get: Some(value) for a stored key, None otherwise.
Mapping_get(m, k) == IF k \in DOMAIN m THEN Some(m[k]) ELSE None

\* Mapping::insert: the key now holds the value; every other key is as before.
Mapping_insert(m, k, v) ==
    [x \in (DOMAIN m) \cup {k} |-> IF x = k THEN v ELSE m[x]]

\* Vec::push
Vec_push(v, x) == Append(v, x)

\* Mutant of checked_add: u32::wrapping_add, the sum wraps past the maximum.
wrapping_add(a, b) == Some((a + b) % (U32_MAX + 1))

\* u32::checked_add: None when the sum does not fit the counter.
checked_add(a, b) == IF a + b > U32_MAX THEN None ELSE Some(a + b)

\* VoteError and the Ok(()) result of vote.
Ok == "Ok"
AlreadyVoted == "AlreadyVoted"
VoteOverflow == "VoteOverflow"

-----------------------------------------------------------------------------
\* Voting::new: the three fields empty.
new == [runners |-> <<>>, votes |-> Mapping_default, already_voted |-> Mapping_default]

\* Mutant of get_votes: an absent count reads as 1.
get_votes_default_one(self, address) == unwrap_or(Mapping_get(self.votes, address), 1)

\* Voting::get_votes
get_votes(self, address) == unwrap_or_default(Mapping_get(self.votes, address))

\* Mutant of caller_already_voted: the check reads votes, the other mapping
\* keyed by AccountId.
caller_already_voted_reads_votes(self, caller) ==
    Mapping_get(self.votes, caller) # None

\* vote, line 62: has the caller's flag been set?
caller_already_voted(self, caller) ==
    unwrap_or(Mapping_get(self.already_voted, caller), FALSE)

\* Mutant of tag_caller: the insert of line 67 is missing.
tag_caller_missing(self, caller) == self

\* vote, line 67: tag caller as already voted.
tag_caller(self, caller) ==
    [self EXCEPT !.already_voted = Mapping_insert(@, caller, TRUE)]

\* vote, line 70: the count stored for address, 0 when none is.
read_current_votes(self, address) ==
    unwrap_or_default(Mapping_get(self.votes, address))

\* Mutant of add_runner: the address is inserted at the front of runners.
add_runner_at_front(self, address, current_votes) ==
    IF current_votes = 0
    THEN [self EXCEPT !.runners = <<address>> \o @]
    ELSE self

\* Mutant of add_runner: the guard is inverted.
add_runner_inverted(self, address, current_votes) ==
    IF current_votes # 0
    THEN [self EXCEPT !.runners = Vec_push(@, address)]
    ELSE self

\* Mutant of add_runner: the push is not guarded by current_votes == 0.
add_runner_unguarded(self, address, current_votes) ==
    [self EXCEPT !.runners = Vec_push(@, address)]

\* vote, lines 73-75: if no votes yet, add address to runners.
add_runner(self, address, current_votes) ==
    IF current_votes = 0
    THEN [self EXCEPT !.runners = Vec_push(@, address)]
    ELSE self

\* Mutant of store_vote: the count read, not the incremented one, is stored.
store_vote_not_incremented(self, address, current_votes) ==
    LET new_votes == checked_add(current_votes, 1)
    IN  IF new_votes = None
        THEN [self |-> self, ret |-> VoteOverflow]
        ELSE [self |-> [self EXCEPT !.votes = Mapping_insert(@, address, current_votes)],
              ret |-> Ok]

\* Mutant of store_vote: the count is incremented without the overflow check.
store_vote_unchecked(self, address, current_votes) ==
    [self |-> [self EXCEPT !.votes = Mapping_insert(@, address, current_votes + 1)],
     ret |-> Ok]

\* vote, lines 79-84: store the incremented count, or return VoteOverflow.
store_vote(self, address, current_votes) ==
    LET new_votes == checked_add(current_votes, 1)
    IN  IF new_votes = None
        THEN [self |-> self, ret |-> VoteOverflow]
        ELSE [self |-> [self EXCEPT !.votes = Mapping_insert(@, address, new_votes[1])],
              ret |-> Ok]

\* Mutant of vote: the address is added to runners before the already_voted check.
vote_pushes_first(self, caller, address) ==
    LET current_votes == read_current_votes(self, address)
        pushed == add_runner(self, address, current_votes)
    IN  IF caller_already_voted(self, caller)
        THEN [self |-> pushed, ret |-> AlreadyVoted]
        ELSE store_vote(tag_caller(pushed, caller), address, current_votes)

\* Mutant of vote: the overflow check runs before the caller is tagged, so a
\* call that returns VoteOverflow writes nothing.
vote_checks_overflow_first(self, caller, address) ==
    IF caller_already_voted(self, caller)
    THEN [self |-> self, ret |-> AlreadyVoted]
    ELSE
        LET current_votes == read_current_votes(self, address)
        IN  IF checked_add(current_votes, 1) = None
            THEN [self |-> self, ret |-> VoteOverflow]
            ELSE store_vote(add_runner(tag_caller(self, caller), address, current_votes),
                            address, current_votes)

\* Voting::vote, as a function from the storage before the call, the caller and
\* the argument to the storage after the call and the returned Result.
vote(self, caller, address) ==
    IF caller_already_voted(self, caller)
    THEN [self |-> self, ret |-> AlreadyVoted]
    ELSE
        LET tagged == tag_caller(self, caller)
            current_votes == read_current_votes(tagged, address)
        IN  store_vote(add_runner(tagged, address, current_votes), address, current_votes)

\* Mutant of winner_step: the Greater branch does not clear current_winners.
winner_step_no_clear(self, acc, runner) ==
    LET v == unwrap_or(Mapping_get(self.votes, runner), 0)
    IN  IF v > acc.highest_votes
        THEN [highest_votes |-> v, current_winners |-> Vec_push(acc.current_winners, runner)]
        ELSE IF v = acc.highest_votes
        THEN [acc EXCEPT !.current_winners = Vec_push(@, runner)]
        ELSE acc

\* Mutant of winner_step: the Equal branch inserts at the front.
winner_step_insert_front(self, acc, runner) ==
    LET v == unwrap_or(Mapping_get(self.votes, runner), 0)
    IN  IF v > acc.highest_votes
        THEN [highest_votes |-> v, current_winners |-> <<runner>>]
        ELSE IF v = acc.highest_votes
        THEN [acc EXCEPT !.current_winners = <<runner>> \o @]
        ELSE acc

\* One iteration of the loop of get_current_winner on `runner`; `acc` holds the
\* loop's two locals.
winner_step(self, acc, runner) ==
    LET v == unwrap_or(Mapping_get(self.votes, runner), 0)
    IN  IF v > acc.highest_votes
        THEN [highest_votes |-> v, current_winners |-> <<runner>>]
        ELSE IF v = acc.highest_votes
        THEN [acc EXCEPT !.current_winners = Vec_push(@, runner)]
        ELSE acc

\* The loop of get_current_winner over runners[i..], in order.
RECURSIVE winner_loop(_, _, _)
winner_loop(self, acc, i) ==
    IF i > Len(self.runners)
    THEN acc
    ELSE winner_loop(self, winner_step(self, acc, self.runners[i]), i + 1)

\* Voting::get_current_winner
get_current_winner(self) ==
    winner_loop(self, [highest_votes |-> 0, current_winners |-> <<>>], 1).current_winners

-----------------------------------------------------------------------------
\* The storage struct the messages run on.
Self == [runners |-> runners, votes |-> votes, already_voted |-> already_voted]

Init ==
    /\ runners = new.runners
    /\ votes = new.votes
    /\ already_voted = new.already_voted
    /\ call = [op |-> "new"]
    /\ okCount = [a \in Accounts |-> 0]
    /\ overflowCount = [a \in Accounts |-> 0]
    /\ ballot = <<>>
    /\ pending = {}

\* A call of the message vote(address) by `caller`.
Vote(caller, address) ==
    LET r == vote(Self, caller, address)
    IN  /\ runners' = r.self.runners
        /\ votes' = r.self.votes
        /\ already_voted' = r.self.already_voted
        /\ call' = [op |-> "vote", caller |-> caller, address |-> address, ret |-> r.ret]
        /\ okCount' = IF r.ret = Ok THEN [okCount EXCEPT ![caller] = @ + 1] ELSE okCount
        /\ overflowCount' = IF r.ret = VoteOverflow
                            THEN [overflowCount EXCEPT ![caller] = @ + 1]
                            ELSE overflowCount

\* A call of the message get_votes(address); &self, so the storage is not written.
GetVotes(address) ==
    /\ call' = [op |-> "get_votes", address |-> address, ret |-> get_votes(Self, address)]
    /\ UNCHANGED <<runners, votes, already_voted, okCount, overflowCount>>

\* A call of the message get_current_winner(); &self, so the storage is not written.
GetCurrentWinner ==
    /\ call' = [op |-> "get_current_winner", ret |-> get_current_winner(Self)]
    /\ UNCHANGED <<runners, votes, already_voted, okCount, overflowCount>>

Next ==
    \/ \E caller \in Accounts, address \in Accounts :
          Vote(caller, address) /\ UNCHANGED order
    \/ \E address \in Accounts : GetVotes(address) /\ UNCHANGED order
    \/ GetCurrentWinner /\ UNCHANGED order

Spec == Init /\ [][Next]_vars

-----------------------------------------------------------------------------
\* A second specification, for the claims about the order of vote calls: a
\* fresh ledger and a ballot of vote calls by pairwise distinct callers, made
\* one at a time in any order, with reads in between.

InitOrder ==
    /\ runners = new.runners
    /\ votes = new.votes
    /\ already_voted = new.already_voted
    /\ call = [op |-> "new"]
    /\ okCount = [a \in Accounts |-> 0]
    /\ overflowCount = [a \in Accounts |-> 0]
    /\ ballot \in [Accounts -> Accounts]
    /\ pending = Accounts

\* The pending call of the ballot by `caller` is made.
CastBallot(caller) ==
    /\ caller \in pending
    /\ Vote(caller, ballot[caller])
    /\ pending' = pending \ {caller}
    /\ UNCHANGED ballot

NextOrder ==
    \/ \E caller \in Accounts : CastBallot(caller)
    \/ GetCurrentWinner /\ UNCHANGED order

SpecOrder == InitOrder /\ [][NextOrder]_vars

-----------------------------------------------------------------------------
\* Helpers of the properties, stated on the stored data itself.

\* The set of elements of a sequence.
Range(seq) == {seq[i] : i \in DOMAIN seq}

\* The flag stored for v is true.
Flagged(v) == v \in DOMAIN already_voted /\ already_voted[v] = TRUE

\* The count stored for c, 0 when no count is stored.
Count(c) == IF c \in DOMAIN votes THEN votes[c] ELSE 0

\* The step is a call of vote by v.
VoteCallBy(v) == call'.op = "vote" /\ call'.caller = v

-----------------------------------------------------------------------------
\* C1: one vote per voter. Once a vote call by v has returned Ok, every later
\* vote call by v, for any candidate, returns Err(AlreadyVoted) and leaves
\* votes, runners and already_voted as they were.
C1_OneVotePerVoter ==
    [][\A v \in Accounts :
          (okCount[v] >= 1 /\ VoteCallBy(v))
              => (call'.ret = AlreadyVoted /\ UNCHANGED storage)]_vars

\* A voter with one Ok vote has just called vote for a candidate nobody has
\* voted for (so not the candidate of the first vote) and got AlreadyVoted.
C1_Witness ==
    /\ call.op = "vote"
    /\ call.ret = AlreadyVoted
    /\ okCount[call.caller] = 1
    /\ Count(call.address) = 0
    /\ call.address \notin Range(runners)

\* C2: already_voted[v] is true if and only if exactly one vote call by v has
\* returned Ok.
C2_FlagIffOneOkVote ==
    \A v \in Accounts : Flagged(v) <=> okCount[v] = 1

\* C3: overflow rejection. A vote for a candidate whose count is at the
\* counter's maximum, by a caller who has not voted, returns Err(VoteOverflow)
\* and changes no count, neither the candidate's nor any other.
C3_OverflowRejected ==
    [][\A v \in Accounts, c \in Accounts :
          (Count(c) = U32_MAX /\ ~Flagged(v) /\ VoteCallBy(v) /\ call'.address = c)
              => (call'.ret = VoteOverflow /\ votes' = votes)]_vars

\* The last call returned VoteOverflow on a candidate whose count is at the
\* maximum, while another candidate has a count too.
C3_Witness ==
    /\ call.op = "vote"
    /\ call.ret = VoteOverflow
    /\ Count(call.address) = U32_MAX
    /\ \E d \in Accounts : d # call.address /\ Count(d) >= 1

\* C4: a vote call that returns Err(VoteOverflow) sets already_voted[caller];
\* after it every vote call by that caller, for any candidate, returns
\* Err(AlreadyVoted), and the caller never contributes to a count.
C4_OverflowSpendsTheVote ==
    /\ [](\A v \in Accounts : overflowCount[v] >= 1 => (Flagged(v) /\ okCount[v] = 0))
    /\ [][\A v \in Accounts :
             /\ (VoteCallBy(v) /\ call'.ret = VoteOverflow)
                    => (v \in DOMAIN already_voted' /\ already_voted'[v] = TRUE)
             /\ (overflowCount[v] >= 1 /\ VoteCallBy(v))
                    => (call'.ret = AlreadyVoted /\ UNCHANGED storage)]_vars

\* A caller whose vote overflowed has just voted for a candidate whose count is
\* below the maximum, and got AlreadyVoted.
C4_Witness ==
    /\ call.op = "vote"
    /\ call.ret = AlreadyVoted
    /\ overflowCount[call.caller] = 1
    /\ Count(call.address) < U32_MAX

\* C5: runner registration. A candidate occurs in runners if and only if its
\* count is at least 1, it occurs at most once, and runners changes exactly in
\* the step that takes a count from 0 to 1, by appending that candidate.
C5_RunnerRegistration ==
    /\ [](/\ \A c \in Accounts : c \in Range(runners) <=> Count(c) >= 1
          /\ \A i, j \in DOMAIN runners : runners[i] = runners[j] => i = j)
    /\ [][\A c \in Accounts :
             IF Count(c) = 0 /\ (c \in DOMAIN votes' /\ votes'[c] = 1)
             THEN runners' = Append(runners, c)
             ELSE c \in Range(runners') <=> c \in Range(runners)]_vars

\* Two runners, one of them voted for twice and still listed once.
C5_Witness ==
    /\ Len(runners) >= 2
    /\ \E c \in Range(runners) : Count(c) = 2

\* The count stored for c in the mapping m, 0 when no count is stored.
CountIn(m, c) == IF c \in DOMAIN m THEN m[c] ELSE 0

\* The largest count over all accounts.
TopCount == CHOOSE n \in {Count(c) : c \in Accounts} : \A c \in Accounts : Count(c) <= n

\* The accounts whose count is the largest one.
Leaders == {c \in Accounts : Count(c) = TopCount}

\* Some vote call has returned Ok.
SomeVoteSucceeded == \E v \in Accounts : okCount[v] >= 1

\* C6: tie-inclusive winner. Once a vote has succeeded, the accounts returned
\* by get_current_winner are exactly the candidates whose count is the maximum
\* over all candidates.
C6_TieInclusiveWinner ==
    SomeVoteSucceeded =>
        /\ Range(get_current_winner(Self)) = Leaders
        /\ call.op = "get_current_winner" => Range(call.ret) = Leaders

\* get_current_winner has returned two leaders tied at two votes each.
C6_Witness ==
    /\ call.op = "get_current_winner"
    /\ Cardinality(Range(call.ret)) = 2
    /\ \A c \in Range(call.ret) : Count(c) = 2

\* C7: get_current_winner returns the empty sequence if and only if no vote
\* call has returned Ok, and if and only if runners is empty.
C7_EmptyIffNoVote ==
    /\ get_current_winner(Self) = <<>> <=> ~SomeVoteSucceeded
    /\ get_current_winner(Self) = <<>> <=> runners = <<>>
    /\ call.op = "get_current_winner" => (call.ret = <<>> <=> ~SomeVoteSucceeded)

\* get_current_winner has returned a non-empty sequence in a state that both
\* kinds of failed call led to.
C7_Witness ==
    /\ call.op = "get_current_winner"
    /\ call.ret # <<>>
    /\ \E v \in Accounts : overflowCount[v] >= 1
    /\ \E v \in Accounts : okCount[v] = 1 /\ overflowCount[v] = 0

\* C8: monotonic counts. In every step no count decreases, none grows by more
\* than 1, and none exceeds the counter's maximum.
C8_MonotonicCounts ==
    [][\A c \in Accounts :
          /\ CountIn(votes', c) >= Count(c)
          /\ CountIn(votes', c) <= Count(c) + 1
          /\ CountIn(votes', c) <= U32_MAX]_vars

\* An Ok vote has just taken a count to the counter's maximum.
C8_Witness ==
    /\ call.op = "vote"
    /\ call.ret = Ok
    /\ Count(call.address) = U32_MAX

\* The elements of seq that are in the set S, in the order of seq.
RECURSIVE Restrict(_, _)
Restrict(seq, S) ==
    IF seq = <<>> THEN <<>>
    ELSE IF Head(seq) \in S THEN <<Head(seq)>> \o Restrict(Tail(seq), S)
    ELSE Restrict(Tail(seq), S)

\* C9: the sequence returned by get_current_winner lists the leaders in the
\* order of runners, each once: A voting for X and then B voting for Y yields
\* [X, Y], not [Y, X].
C9_WinnersInRunnerOrder ==
    LET w == get_current_winner(Self)
    IN  /\ w = Restrict(runners, Range(w))
        /\ \A i, j \in DOMAIN w : w[i] = w[j] => i = j
        /\ call.op = "get_current_winner" => call.ret = w
        /\ \A x, y \in Accounts :
              (runners = <<x, y>> /\ Count(x) = 1 /\ Count(y) = 1) => w = <<x, y>>

\* get_current_winner has returned two tied leaders, the first of them the
\* account with the larger id.
C9_Witness ==
    /\ call.op = "get_current_winner"
    /\ Len(call.ret) = 2
    /\ call.ret[1] > call.ret[2]
    /\ runners = call.ret

\* C10: the reads are total and pure. get_votes returns the stored count, 0
\* for an account without one (0 for every account on a fresh ledger),
\* get_current_winner returns a sequence of accounts, and neither call changes
\* votes, runners or already_voted.
C10_ReadsArePure ==
    /\ \A a \in Accounts : get_votes(new, a) = 0
    /\ [](\A a \in Accounts : get_votes(Self, a) = Count(a))
    /\ [][/\ call'.op = "get_votes"
               => (call'.ret = Count(call'.address) /\ UNCHANGED storage)
          /\ call'.op = "get_current_winner"
               => (/\ call'.ret \in Seq(Accounts)
                   /\ UNCHANGED storage)]_vars

\* get_votes has returned 0 for an account that has voted and was never voted
\* for, on a ledger that holds votes.
C10_Witness ==
    /\ call.op = "get_votes"
    /\ call.ret = 0
    /\ call.address \notin DOMAIN votes
    /\ Flagged(call.address)
    /\ runners # <<>>

-----------------------------------------------------------------------------
\* The ledger after the calls of ballot b by the callers in `voters`, made on
\* `self` in ascending order of the caller.
RECURSIVE cast_in_order(_, _, _)
cast_in_order(self, b, voters) ==
    IF voters = {}
    THEN self
    ELSE LET v == CHOOSE x \in voters : \A y \in voters : x <= y
         IN  cast_in_order(vote(self, v, b[v]).self, b, voters \ {v})

\* The calls of the ballot made so far, made on a fresh ledger in ascending order.
InAscendingOrder == cast_in_order(new, ballot, Accounts \ pending)

\* C11: vote order does not affect the outcome. Whatever order the calls of a
\* set of vote calls by pairwise distinct callers are made in, the votes map,
\* the already_voted map and the set of winners are those of the same calls
\* made in ascending order of the caller; runners holds the same accounts.
C11_OrderIndependent ==
    /\ votes = InAscendingOrder.votes
    /\ already_voted = InAscendingOrder.already_voted
    /\ Range(get_current_winner(Self)) = Range(get_current_winner(InAscendingOrder))
    /\ Range(runners) = Range(InAscendingOrder.runners)
    /\ call.op = "get_current_winner"
           => Range(call.ret) = Range(get_current_winner(InAscendingOrder))

\* All calls of a ballot are made and get_current_winner has returned tied
\* leaders in another order than it does after the calls in ascending order.
C11_Witness ==
    /\ pending = {}
    /\ call.op = "get_current_winner"
    /\ Len(call.ret) >= 2
    /\ call.ret # get_current_winner(InAscendingOrder)
    /\ runners # InAscendingOrder.runners

-----------------------------------------------------------------------------
\* The value stored for key k in the mapping m is the same in m and n (or
\* stored in neither).
SameAt(m, n, k) ==
    /\ k \in DOMAIN m <=> k \in DOMAIN n
    /\ k \in DOMAIN m => m[k] = n[k]

\* C12: effect of a successful vote. When vote(c) by v returns Ok, the count of
\* c is its previous value plus 1, every other count is unchanged, the flag of
\* v is true, every other flag is unchanged, and runners is unchanged (previous
\* count of c >= 1) or the previous runners with c appended (previous count 0).
C12_EffectOfOkVote ==
    [][(call'.op = "vote" /\ call'.ret = Ok) =>
          LET v == call'.caller
              c == call'.address
          IN  /\ c \in DOMAIN votes' /\ votes'[c] = Count(c) + 1
              /\ \A d \in Accounts \ {c} : SameAt(votes, votes', d)
              /\ v \in DOMAIN already_voted' /\ already_voted'[v] = TRUE
              /\ \A u \in Accounts \ {v} : SameAt(already_voted, already_voted', u)
              /\ runners' = IF Count(c) >= 1 THEN runners ELSE Append(runners, c)]_vars

\* An Ok vote has just taken a count from 1 to 2 while another account has a
\* count and another caller a flag.
C12_Witness ==
    /\ call.op = "vote"
    /\ call.ret = Ok
    /\ Count(call.address) = 2
    /\ \E d \in Accounts \ {call.address} : Count(d) >= 1
    /\ \E u \in Accounts \ {call.caller} : Flagged(u)

\* s is a prefix of t.
IsPrefix(s, t) == Len(s) <= Len(t) /\ s = SubSeq(t, 1, Len(s))

\* C13: state only grows. The constructor yields empty runners, votes and
\* already_voted; in every step runners is a prefix of the next runners, a flag
\* that is true stays true, and a stored count stays stored.
C13_StateOnlyGrows ==
    /\ new.runners = <<>> /\ DOMAIN new.votes = {} /\ DOMAIN new.already_voted = {}
    /\ [][/\ IsPrefix(runners, runners')
          /\ \A v \in Accounts :
                Flagged(v) => (v \in DOMAIN already_voted' /\ already_voted'[v] = TRUE)
          /\ \A c \in Accounts : c \in DOMAIN votes => c \in DOMAIN votes']_vars

\* A third runner has just been appended on a ledger with three flags set.
C13_Witness ==
    /\ call.op = "vote"
    /\ call.ret = Ok
    /\ Len(runners) = 3
    /\ runners[3] = call.address
    /\ Cardinality({v \in Accounts : Flagged(v)}) = 3

-----------------------------------------------------------------------------
\* The loop's locals when get_current_winner enters iteration i: the loop run
\* over the first i - 1 runners.
LocalsBefore(i) ==
    winner_loop([Self EXCEPT !.runners = SubSeq(runners, 1, i - 1)],
                [highest_votes |-> 0, current_winners |-> <<>>], 1)

\* The count line 92 reads for the runner of iteration i.
VotesRead(i) == unwrap_or(Mapping_get(votes, runners[i]), 0)

\* Iteration i takes the Ordering::Equal branch.
TakesEqualBranch(i) == VotesRead(i) = LocalsBefore(i).highest_votes

\* C14: every runner the loop of get_current_winner visits has a count >= 1,
\* so the Equal branch is never taken while highest_votes is still 0, and no
\* account with count 0 is in the returned sequence.
C14_NoTieAtZero ==
    /\ \A i \in DOMAIN runners :
          /\ VotesRead(i) >= 1
          /\ ~(TakesEqualBranch(i) /\ LocalsBefore(i).highest_votes = 0)
    /\ \A c \in Range(get_current_winner(Self)) : Count(c) >= 1
    /\ call.op = "get_current_winner" => \A c \in Range(call.ret) : Count(c) >= 1

\* get_current_winner has taken the Equal branch (at a maximum of 1) in its
\* third iteration, on a ledger where an account with count 0 exists.
C14_Witness ==
    /\ call.op = "get_current_winner"
    /\ Len(runners) = 3
    /\ TakesEqualBranch(3)
    /\ LocalsBefore(3).highest_votes = 1
    /\ \E a \in Accounts : Count(a) = 0 /\ Flagged(a)

\* C15: a vote call that returns an error changes neither runners nor any
\* count. After Err(VoteOverflow) the only change is already_voted[caller] =
\* true (the count read was not 0, so nothing was appended); after
\* Err(AlreadyVoted) nothing has changed.
C15_ErrorsWriteNoCount ==
    [][/\ (call'.op = "vote" /\ call'.ret = VoteOverflow) =>
             /\ runners' = runners
             /\ votes' = votes
             /\ Count(call'.address) # 0
             /\ ~Flagged(call'.caller)
             /\ DOMAIN already_voted' = DOMAIN already_voted \cup {call'.caller}
             /\ already_voted'[call'.caller] = TRUE
             /\ \A u \in Accounts \ {call'.caller} :
                   SameAt(already_voted, already_voted', u)
       /\ (call'.op = "vote" /\ call'.ret = AlreadyVoted) => UNCHANGED storage]_vars

\* A call for an account that is no runner has returned AlreadyVoted to a
\* caller whose earlier call overflowed.
C15_Witness ==
    /\ call.op = "vote"
    /\ call.ret = AlreadyVoted
    /\ overflowCount[call.caller] = 1
    /\ call.address \notin Range(runners)
    /\ Count(call.address) = 0

\* The sum of f[a] over the accounts a of S.
RECURSIVE SumOver(_, _)
SumOver(f, S) ==
    IF S = {} THEN 0
    ELSE LET a == CHOOSE x \in S : TRUE IN f[a] + SumOver(f, S \ {a})

TotalVotes == SumOver([c \in Accounts |-> Count(c)], Accounts)
TotalOk == SumOver(okCount, Accounts)
TotalOverflow == SumOver(overflowCount, Accounts)
NumFlagged == Cardinality({v \in Accounts : Flagged(v)})

\* C16: vote conservation. The sum of all counts equals the number of vote
\* calls that returned Ok, which equals the number of flagged accounts minus
\* the number of calls that returned Err(VoteOverflow); so the sum never
\* exceeds the number of flagged accounts and equals it while no call has
\* overflowed.
C16_VoteConservation ==
    /\ TotalVotes = TotalOk
    /\ TotalOk = NumFlagged - TotalOverflow
    /\ TotalVotes <= NumFlagged
    /\ TotalOverflow = 0 => TotalVotes = NumFlagged

\* One call has overflowed and three have returned Ok, for two candidates.
C16_Witness ==
    /\ TotalOverflow = 1
    /\ TotalOk = 3
    /\ Len(runners) = 2

\* C17: voting and being voted for are independent. A vote step changes no
\* flag but the caller's (so being voted for changes no flag), and changes the
\* caller's own count only if the caller voted for itself; a caller who has not
\* voted is never refused as AlreadyVoted, whatever count it has received, and
\* gets Ok when the count of the address is below the maximum; an Ok vote for
\* itself raises the caller's own count by 1.
C17_VoterAndCandidateIndependent ==
    [][call'.op = "vote" =>
          LET v == call'.caller
              c == call'.address
          IN  /\ \A a \in Accounts \ {v} : SameAt(already_voted, already_voted', a)
              /\ c # v => SameAt(votes, votes', v)
              /\ ~Flagged(v) => call'.ret # AlreadyVoted
              /\ (~Flagged(v) /\ Count(c) < U32_MAX) => call'.ret = Ok
              /\ (c = v /\ call'.ret = Ok) => CountIn(votes', v) = Count(v) + 1]_vars

\* An account that had received a vote and had not voted has just voted for
\* itself with Ok.
C17_Witness ==
    /\ call.op = "vote"
    /\ call.ret = Ok
    /\ call.caller = call.address
    /\ Count(call.caller) = 2
    /\ okCount[call.caller] = 1

====
